---- MODULE Spec2Model ----
\* Model of mockery-api: the request dispatch of MockHandler (handler.go),
\* the configuration it is built from (config.go) and the mux wiring of main.
\* Strings that the code inspects character by character (patterns and
\* request paths) are sequences of one-character strings.
EXTENDS Integers, Sequences, FiniteSets, TLC

VARIABLES config, routes, req, resp, log, mPattern, mPath, mResult, calls

vars == <<config, routes, req, resp, log, mPattern, mPath, mResult, calls>>

\* ---------------------------------------------------------------- bounds
MaxLen == 4
MaxRoutes == 2

\* ------------------------------------------------------- string helpers
Alphabet == {"/", "a", "{", "}"}

RECURSIVE StrsOfLen(_)
StrsOfLen(n) ==
    IF n = 0 THEN {<<>>}
    ELSE {Append(s, c) : s \in StrsOfLen(n - 1), c \in Alphabet}

Strs == UNION {StrsOfLen(n) : n \in 0..MaxLen}

\* strings.Contains(s, c) for a one-character c
Contains(s, c) == \E i \in 1..Len(s) : s[i] = c

RECURSIVE TrimLeft(_, _)
TrimLeft(s, c) ==
    IF Len(s) > 0 /\ s[1] = c THEN TrimLeft(Tail(s), c) ELSE s

RECURSIVE TrimRight(_, _)
TrimRight(s, c) ==
    IF Len(s) > 0 /\ s[Len(s)] = c
    THEN TrimRight(SubSeq(s, 1, Len(s) - 1), c)
    ELSE s

\* Trim that forgets the trailing characters
TrimLeadingOnly(s, c) == TrimLeft(s, c)

\* strings.Trim(s, c): every leading and every trailing c is removed
Trim(s, c) == TrimRight(TrimLeft(s, c), c)

\* strings.Split(s, c): the pieces between the occurrences of c; the
\* empty string splits into one empty piece
RECURSIVE Split(_, _)
Split(s, c) ==
    IF ~Contains(s, c) THEN <<s>>
    ELSE LET i == CHOOSE k \in 1..Len(s) :
                      s[k] = c /\ \A j \in 1..(k - 1) : s[j] # c
         IN  <<SubSeq(s, 1, i - 1)>> \o Split(SubSeq(s, i + 1, Len(s)), c)

HasPrefix(s, c) == Len(s) > 0 /\ s[1] = c
HasSuffix(s, c) == Len(s) > 0 /\ s[Len(s)] = c

\* ---------------------------------------------------------- pathMatches
\* The segment loop taking every segment that starts with "{" for a parameter
RECURSIVE CompareSegmentsPrefixOnly(_, _, _)
CompareSegmentsPrefixOnly(patternParts, pathParts, i) ==
    IF i > Len(patternParts) THEN TRUE
    ELSE IF HasPrefix(patternParts[i], "{")
         THEN CompareSegmentsPrefixOnly(patternParts, pathParts, i + 1)
         ELSE IF patternParts[i] # pathParts[i] THEN FALSE
              ELSE CompareSegmentsPrefixOnly(patternParts, pathParts, i + 1)

\* The segment loop of pathMatches from index i on: a parameter segment
\* continues, any other segment must equal the path segment.
RECURSIVE CompareSegments(_, _, _)
CompareSegments(patternParts, pathParts, i) ==
    IF i > Len(patternParts) THEN TRUE
    ELSE IF HasPrefix(patternParts[i], "{") /\ HasSuffix(patternParts[i], "}")
         THEN CompareSegments(patternParts, pathParts, i + 1)
         ELSE IF patternParts[i] # pathParts[i] THEN FALSE
              ELSE CompareSegments(patternParts, pathParts, i + 1)

\* pathMatches without the early return for patterns without a parameter
pathMatchesNoStaticCheck(pattern, path) ==
    IF pattern = path THEN TRUE
    ELSE LET patternParts == Split(Trim(pattern, "/"), "/")
             pathParts    == Split(Trim(path, "/"), "/")
         IN  IF Len(patternParts) # Len(pathParts) THEN FALSE
             ELSE CompareSegments(patternParts, pathParts, 1)

pathMatches(pattern, path) ==
    IF pattern = path THEN TRUE
    ELSE IF ~Contains(pattern, "{") THEN FALSE
    ELSE LET patternParts == Split(Trim(pattern, "/"), "/")
             pathParts    == Split(Trim(path, "/"), "/")
         IN  IF Len(patternParts) # Len(pathParts) THEN FALSE
             ELSE CompareSegments(patternParts, pathParts, 1)

\* ------------------------------------------------------ configuration
\* Route patterns and request paths used by the dispatch specification.
PathParam  == <<"/", "{", "x", "}">>
PathA      == <<"/", "a">>
PathASlash == <<"/", "a", "/">>
PathB      == <<"/", "b">>
PathRoot   == <<"/">>
PathHealth == <<"/", "_", "h", "e", "a", "l", "t", "h">>

RoutePaths   == {PathParam, PathA, PathHealth}
RequestPaths == {PathA, PathASlash, PathB, PathRoot, PathHealth}

ConfigMethods  == {"GET", "POST"}
RequestMethods == {"GET", "POST", "get"}

EmptyMap == [k \in {} |-> ""]

\* The requiresAuth, authHeader and response fields a route of the
\* configuration file may carry. headers.present is FALSE when the field
\* is omitted; body is the JSON text of the field, or "omitted". The last
\* one is rejected by validateConfig.
RouteSettings ==
    { [requiresAuth |-> FALSE, authHeader |-> "",
       response |-> [status |-> 200,
                     headers |-> [present |-> FALSE, m |-> EmptyMap],
                     body |-> "omitted"]],
      [requiresAuth |-> TRUE, authHeader |-> "X-Key",
       response |-> [status |-> 200,
                     headers |-> [present |-> TRUE, m |-> EmptyMap],
                     body |-> "null"]],
      [requiresAuth |-> FALSE, authHeader |-> "",
       response |-> [status |-> 201,
                     headers |-> [present |-> TRUE,
                                  m |-> ("content-type" :> "text/plain"
                                         @@ "X-A" :> "1")],
                     body |-> "{\"id\":1}"]],
      [requiresAuth |-> TRUE, authHeader |-> "x-key",
       response |-> [status |-> 401,
                     headers |-> [present |-> TRUE,
                                  m |-> ("X-A" :> "1" @@ "x-a" :> "2")],
                     body |-> "false"]],
      [requiresAuth |-> TRUE, authHeader |-> "",
       response |-> [status |-> 200,
                     headers |-> [present |-> FALSE, m |-> EmptyMap],
                     body |-> "omitted"]] }

JsonRoutes ==
    { [path |-> p, method |-> m, requiresAuth |-> a.requiresAuth,
       authHeader |-> a.authHeader, response |-> a.response] :
      p \in RoutePaths, m \in ConfigMethods, a \in RouteSettings }

Ports == {0, 3000}

validMethods == {"GET", "POST", "PUT", "DELETE", "PATCH", "HEAD"}

\* validateConfig: TRUE when it returns no error
validateConfig(c) ==
    /\ ~(c.server.port <= 0 \/ c.server.port > 65535)
    /\ \A i \in 1..Len(c.routes) :
          /\ c.routes[i].path # <<>>
          /\ c.routes[i].method \in validMethods
          /\ ~(c.routes[i].requiresAuth /\ c.routes[i].authHeader = "")

\* json.Unmarshal into Response.Body (interface{}): a JSON null and an
\* omitted field both leave the nil interface; any other value is stored.
UnmarshalBody(b) ==
    IF b = "omitted" \/ b = "null" THEN [isNil |-> TRUE, json |-> ""]
    ELSE [isNil |-> FALSE, json |-> b]

\* json.Unmarshal into Response.Headers (map[string]string)
UnmarshalHeaders(h) ==
    IF h.present THEN [isNil |-> FALSE, m |-> h.m]
    ELSE [isNil |-> TRUE, m |-> EmptyMap]

\* json.Unmarshal of one element of "routes" into a Route
UnmarshalRoute(j) ==
    [Path |-> j.path, Method |-> j.method, RequiresAuth |-> j.requiresAuth,
     AuthHeader |-> j.authHeader,
     Response |-> [Status  |-> j.response.status,
                   Headers |-> UnmarshalHeaders(j.response.headers),
                   Body    |-> UnmarshalBody(j.response.body)]]

\* LoadConfig followed by NewMockHandler: the handler's route slice
LoadConfig(c) == [i \in 1..Len(c.routes) |-> UnmarshalRoute(c.routes[i])]

RECURSIVE SeqsUpTo(_, _)
SeqsUpTo(S, n) ==
    IF n = 0 THEN {<<>>}
    ELSE SeqsUpTo(S, n - 1) \cup
         {Append(s, x) : s \in {t \in SeqsUpTo(S, n - 1) : Len(t) = n - 1},
                         x \in S}

ConfigFiles ==
    { [server |-> [port |-> p], routes |-> rs] :
      p \in Ports, rs \in SeqsUpTo(JsonRoutes, MaxRoutes) }

\* ------------------------------------------------------------ requests
\* The value of the X-Key request header: absent, empty or a token.
NoHeaders == EmptyMap

RequestHeaders == {NoHeaders} \cup {("X-Key" :> v) : v \in {"", "t1", "t2"}}

NoRequest == [method |-> "", path |-> <<>>, headers |-> NoHeaders]

Requests ==
    { [method |-> m, path |-> p, headers |-> h] :
      m \in RequestMethods, p \in RequestPaths, h \in RequestHeaders }

\* textproto.CanonicalMIMEHeaderKey, which Header.Get and Header.Set apply
\* to the key, on the header names of this model
CanonicalMIMEHeaderKey(k) ==
    CASE k = "content-type" -> "Content-Type"
      [] k = "x-a"          -> "X-A"
      [] k = "x-key"        -> "X-Key"
      [] OTHER              -> k

\* r.Header.Get(key): the value, or "" when the header is absent
HeaderGet(h, key) ==
    IF CanonicalMIMEHeaderKey(key) \in DOMAIN h
    THEN h[CanonicalMIMEHeaderKey(key)] ELSE ""

\* w.Header().Set(key, value)
HeaderSet(h, key, value) ==
    [k \in DOMAIN h \cup {CanonicalMIMEHeaderKey(key)} |->
        IF k = CanonicalMIMEHeaderKey(key) THEN value ELSE h[k]]

\* The orders in which `range` may visit the keys of a map
KeyOrders(m) ==
    {o \in [1..Cardinality(DOMAIN m) -> DOMAIN m] :
        \A i, j \in DOMAIN o : i # j => o[i] # o[j]}

\* for key, value := range route.Response.Headers { w.Header().Set(key, value) }
RECURSIVE SetCustomHeaders(_, _, _, _)
SetCustomHeaders(h, m, order, i) ==
    IF i > Len(order) THEN h
    ELSE SetCustomHeaders(HeaderSet(h, order[i], m[order[i]]), m, order, i + 1)

\* ------------------------------------------------------------ log lines
LogLine(kind, method, path, header, status) ==
    [kind |-> kind, method |-> method, path |-> path, header |-> header,
     status |-> status]

LogRequest(r)     == LogLine("request", r.method, r.path, "", 0)
LogNoMatch        == LogLine("no-match", "", <<>>, "", 0)
LogMatched(route) == LogLine("matched", route.Method, route.Path, "", 0)
LogAuthFailed(route)  == LogLine("auth-failed", "", <<>>, route.AuthHeader, 0)
LogAuthPresent(route) == LogLine("auth-present", "", <<>>, route.AuthHeader, 0)
LogEncodeError    == LogLine("encode-error", "", <<>>, "", 0)
LogSent(route)    == LogLine("sent", "", <<>>, "", route.Response.Status)

\* ------------------------------------------------------------ responses
NoResponse == [status |-> 0, headers |-> EmptyMap, body |-> ""]

\* http.Error(w, msg, code): plain-text headers, the code, msg and a newline
HttpError(msg, code) ==
    [status  |-> code,
     headers |-> ("Content-Type" :> "text/plain; charset=utf-8"
                  @@ "X-Content-Type-Options" :> "nosniff"),
     body    |-> msg]

\* http.NotFound(w, r)
NotFound == HttpError("404 page not found\n", 404)

Unauthorized == HttpError("Unauthorized: missing auth header\n", 401)

\* json.NewEncoder(w).Encode(v): the JSON text and a newline
Encode(v) ==
    CASE v.json = "false"       -> "false\n"
      [] v.json = "{\"id\":1}"  -> "{\"id\":1}\n"
      [] v.json = "null"        -> "null\n"
      [] OTHER                  -> "\n"

\* What reaches the client of a payload whose write failed
Truncated == "<truncated>"

\* healthCheckHandler
healthCheckHandler ==
    [status  |-> 200,
     headers |-> ("Content-Type" :> "application/json"),
     body    |-> "{\"status\":\"ok\",\"message\":\"mockery-api is running\"}"]

\* --------------------------------------------------------------- routing
\* A scan that does not compare the method
RECURSIVE findRouteAnyMethod(_, _, _, _)
findRouteAnyMethod(rs, method, path, i) ==
    IF i > Len(rs) THEN 0
    ELSE IF pathMatches(rs[i].Path, path) THEN i
         ELSE findRouteAnyMethod(rs, method, path, i + 1)

\* findRoute: the index of the first route, from index i on, whose method
\* equals the request method and whose path matches; 0 stands for nil
RECURSIVE findRouteFrom(_, _, _, _)
findRouteFrom(rs, method, path, i) ==
    IF i > Len(rs) THEN 0
    ELSE IF rs[i].Method = method /\ pathMatches(rs[i].Path, path) THEN i
         ELSE findRouteFrom(rs, method, path, i + 1)

\* A scan in which the last matching route wins
findRouteLast(rs, method, path) ==
    LET M == {i \in 1..Len(rs) :
                 rs[i].Method = method /\ pathMatches(rs[i].Path, path)}
    IN  IF M = {} THEN 0 ELSE CHOOSE i \in M : \A j \in M : j <= i

findRoute(rs, method, path) == findRouteFrom(rs, method, path, 1)

\* findRoute of the earlier handler version: the method and the path are
\* compared for equality
RECURSIVE findRouteExactFrom(_, _, _, _)
findRouteExactFrom(rs, method, path, i) ==
    IF i > Len(rs) THEN 0
    ELSE IF rs[i].Method = method /\ rs[i].Path = path THEN i
         ELSE findRouteExactFrom(rs, method, path, i + 1)

findRouteExact(rs, method, path) == findRouteExactFrom(rs, method, path, 1)

\* A mux without the /_health registration
muxCatchAllOnly(path) == "mock"

\* The handler the ServeMux of main selects for a request path
muxHandler(path) == IF path = PathHealth THEN "health" ELSE "mock"

\* An auth check that accepts a header that is present but empty
authFailsAbsentOnly(route, r) ==
    route.RequiresAuth
    /\ CanonicalMIMEHeaderKey(route.AuthHeader) \notin DOMAIN r.headers

\* The auth check of ServeHTTP: TRUE when the handler returns 401
authFails(route, r) ==
    route.RequiresAuth /\ HeaderGet(r.headers, route.AuthHeader) = ""

\* Content-Type set before the configured headers instead of after them
responseHeadersContentTypeFirst(route, order) ==
    SetCustomHeaders(HeaderSet(EmptyMap, "Content-Type", "application/json"),
                     route.Response.Headers.m, order, 1)

\* The header map of ServeHTTP when WriteHeader is called
responseHeaders(route, order) ==
    HeaderSet(SetCustomHeaders(EmptyMap, route.Response.Headers.m, order, 1),
              "Content-Type", "application/json")

\* The payload written by ServeHTTP after WriteHeader
responseBody(route, writeFails) ==
    IF route.Response.Body.isNil THEN ""
    ELSE IF writeFails THEN Truncated
    ELSE Encode(route.Response.Body)

\* An emission that always writes 200
emitStatusOK(route, order, writeFails) ==
    [status  |-> 200,
     headers |-> responseHeaders(route, order),
     body    |-> responseBody(route, writeFails)]

\* The response emission of ServeHTTP for a route that passed the checks
emit(route, order, writeFails) ==
    [status  |-> route.Response.Status,
     headers |-> responseHeaders(route, order),
     body    |-> responseBody(route, writeFails)]

\* The log lines of ServeHTTP
serveLog(rs, r, writeFails) ==
    LET i == findRoute(rs, r.method, r.path) IN
    IF i = 0 THEN <<LogRequest(r), LogNoMatch>>
    ELSE IF authFails(rs[i], r)
         THEN <<LogRequest(r), LogMatched(rs[i]), LogAuthFailed(rs[i])>>
    ELSE <<LogRequest(r), LogMatched(rs[i])>>
         \o (IF rs[i].RequiresAuth THEN <<LogAuthPresent(rs[i])>> ELSE <<>>)
         \o (IF ~rs[i].Response.Body.isNil /\ writeFails
             THEN <<LogEncodeError>> ELSE <<LogSent(rs[i])>>)

\* A handler that goes on to later routes when the auth check of a
\* matching route fails
serveResponseFallThrough(rs, r, order, writeFails) ==
    LET M == {i \in 1..Len(rs) :
                 /\ rs[i].Method = r.method
                 /\ pathMatches(rs[i].Path, r.path)}
        P == {i \in M : ~authFails(rs[i], r)}
    IN  IF M = {} THEN NotFound
        ELSE IF P = {} THEN Unauthorized
        ELSE LET j == CHOOSE i \in P : \A k \in P : i <= k
             IN  emit(rs[j],
                      CHOOSE o \in KeyOrders(rs[j].Response.Headers.m) : TRUE,
                      writeFails)

\* The response of ServeHTTP
serveResponse(rs, r, order, writeFails) ==
    LET i == findRoute(rs, r.method, r.path) IN
    IF i = 0 THEN NotFound
    ELSE IF authFails(rs[i], r) THEN Unauthorized
    ELSE emit(rs[i], order, writeFails)

\* ------------------------------------------------------ concurrent calls
\* The goroutines on which the server runs ServeHTTP at the same time
Goroutines == {"g1", "g2"}

\* A goroutine that is not in ServeHTTP. pc is its position in ServeHTTP,
\* route the local variable route (0 for nil), resp what it has written
\* to its ResponseWriter, log the lines it has logged.
Idle ==
    [pc |-> "idle", req |-> NoRequest, route |-> 0, writeFails |-> FALSE,
     resp |-> NoResponse, log |-> <<>>]

NoCalls == [g \in Goroutines |-> Idle]

\* --------------------------------------------------------------- actions
\* main: LoadConfig, NewMockHandler, the mux; no request served yet
Init ==
    /\ config \in {c \in ConfigFiles : validateConfig(c)}
    /\ routes = LoadConfig(config)
    /\ req = NoRequest
    /\ resp = NoResponse
    /\ log = <<>>
    /\ mPattern = <<>>
    /\ mPath = <<>>
    /\ mResult = "none"
    /\ calls = NoCalls

\* MockHandler.ServeHTTP on a request the mux hands to the catch-all
ServeHTTP ==
    \E r \in Requests, writeFails \in BOOLEAN :
        /\ req = NoRequest
        /\ muxHandler(r.path) = "mock"
        /\ LET i == findRoute(routes, r.method, r.path)
               m == IF i = 0 THEN EmptyMap ELSE routes[i].Response.Headers.m
           IN  \E order \in KeyOrders(m) :
                   /\ resp' = serveResponse(routes, r, order, writeFails)
                   /\ log' = serveLog(routes, r, writeFails)
        /\ req' = r
        /\ UNCHANGED <<config, routes, mPattern, mPath, mResult, calls>>

\* healthCheckHandler on a request for /_health
HealthCheck ==
    \E r \in Requests :
        /\ req = NoRequest
        /\ muxHandler(r.path) = "health"
        /\ req' = r
        /\ resp' = healthCheckHandler
        /\ log' = <<>>
        /\ UNCHANGED <<config, routes, mPattern, mPath, mResult, calls>>

\* The server is done with the request: the connection takes the next one
Finish ==
    /\ req # NoRequest
    /\ req' = NoRequest
    /\ resp' = NoResponse
    /\ log' = <<>>
    /\ UNCHANGED <<config, routes, mPattern, mPath, mResult, calls>>

Next == ServeHTTP \/ HealthCheck \/ Finish

Spec == Init /\ [][Next]_vars

\* ------------------------------------------- pathMatches on its own
NoConfig == [server |-> [port |-> 3000], routes |-> <<>>]

MatchInit ==
    /\ config = NoConfig
    /\ routes = LoadConfig(config)
    /\ req = NoRequest
    /\ resp = NoResponse
    /\ log = <<>>
    /\ mPattern \in Strs
    /\ mPath \in Strs
    /\ mResult = "none"
    /\ calls = NoCalls

\* One call pathMatches(mPattern, mPath)
Match ==
    /\ mResult = "none"
    /\ mResult' = IF pathMatches(mPattern, mPath) THEN "true" ELSE "false"
    /\ UNCHANGED <<config, routes, req, resp, log, mPattern, mPath, calls>>

MatchNext == Match

SpecMatch == MatchInit /\ [][MatchNext]_vars

\* ------------------------------------- ServeHTTP calls side by side
\* The configurations and the requests of the concurrent specification
ConcurrentConfigs ==
    {c \in ConfigFiles :
        /\ validateConfig(c)
        /\ \A i \in 1..Len(c.routes) :
              /\ c.routes[i].method = "GET"
              /\ c.routes[i].path \in {PathParam, PathA}}

ConcurrentRequests ==
    {r \in Requests :
        /\ r.method = "GET"
        /\ r.path \in {PathA, PathB}
        /\ r.headers \in {NoHeaders, ("X-Key" :> "t1")}}

\* A route variable kept in one place for all goroutines
sharedRoute(g) == "g1"

\* The goroutine whose stack holds the local variable route of the call
\* that goroutine g runs
localRoute(g) == g

\* A handler that answers a failed encoding with an error response
writeBodyWithFallback(w, route, writeFails) ==
    IF ~route.Response.Body.isNil /\ writeFails
    THEN HttpError("Internal Server Error\n", 500)
    ELSE [w EXCEPT !.body = responseBody(route, writeFails)]

\* The ResponseWriter after the body step of ServeHTTP: status and
\* headers as written before, the payload appended
writeBody(w, route, writeFails) ==
    [w EXCEPT !.body = responseBody(route, writeFails)]

ConcurrentInit ==
    /\ config \in ConcurrentConfigs
    /\ routes = LoadConfig(config)
    /\ req = NoRequest
    /\ resp = NoResponse
    /\ log = <<>>
    /\ mPattern = <<>>
    /\ mPath = <<>>
    /\ mResult = "none"
    /\ calls = NoCalls

\* The route of the call that goroutine g runs
routeOf(g) == routes[calls[localRoute(g)].route]

\* ServeHTTP is entered with a request and logs it
Begin(g) ==
    \E r \in ConcurrentRequests :
        /\ calls[g].pc = "idle"
        /\ calls' = [calls EXCEPT ![g] =
                        [Idle EXCEPT !.pc = "find", !.req = r,
                                     !.log = <<LogRequest(r)>>]]
        /\ UNCHANGED <<config, routes, req, resp, log, mPattern, mPath, mResult>>

\* route := h.findRoute(...), and the 404 when it is nil
Resolve(g) ==
    /\ calls[g].pc = "find"
    /\ LET i == findRoute(routes, calls[g].req.method, calls[g].req.path)
           stored == [calls EXCEPT ![localRoute(g)].route = i]
       IN  IF i = 0
           THEN calls' = [stored EXCEPT
                            ![g].pc = "done",
                            ![g].resp = NotFound,
                            ![g].log = Append(@, LogNoMatch)]
           ELSE calls' = [stored EXCEPT
                            ![g].pc = "auth",
                            ![g].log = Append(@, LogMatched(routes[i]))]
    /\ UNCHANGED <<config, routes, req, resp, log, mPattern, mPath, mResult>>

\* The auth check, and the 401 when it fails
Authorize(g) ==
    /\ calls[g].pc = "auth"
    /\ IF authFails(routeOf(g), calls[g].req)
       THEN calls' = [calls EXCEPT
                        ![g].pc = "done",
                        ![g].resp = Unauthorized,
                        ![g].log = Append(@, LogAuthFailed(routeOf(g)))]
       ELSE calls' = [calls EXCEPT
                        ![g].pc = "header",
                        ![g].log = IF routeOf(g).RequiresAuth
                                   THEN Append(@, LogAuthPresent(routeOf(g)))
                                   ELSE @]
    /\ UNCHANGED <<config, routes, req, resp, log, mPattern, mPath, mResult>>

\* The configured headers, the Content-Type and WriteHeader
WriteHeader(g) ==
    /\ calls[g].pc = "header"
    /\ \E order \in KeyOrders(routeOf(g).Response.Headers.m) :
          calls' = [calls EXCEPT
                      ![g].pc = "body",
                      ![g].resp = [status  |-> routeOf(g).Response.Status,
                                   headers |-> responseHeaders(routeOf(g), order),
                                   body    |-> ""]]
    /\ UNCHANGED <<config, routes, req, resp, log, mPattern, mPath, mResult>>

\* The encoding of the body, with the log line of its outcome
WriteBody(g) ==
    /\ calls[g].pc = "body"
    /\ \E writeFails \in BOOLEAN :
          /\ routeOf(g).Response.Body.isNil => ~writeFails
          /\ calls' = [calls EXCEPT
                         ![g].pc = "done",
                         ![g].writeFails = writeFails,
                         ![g].resp = writeBody(@, routeOf(g), writeFails),
                         ![g].log = IF writeFails
                                    THEN Append(@, LogEncodeError)
                                    ELSE Append(@, LogSent(routeOf(g)))]
    /\ UNCHANGED <<config, routes, req, resp, log, mPattern, mPath, mResult>>

\* ServeHTTP returns; the goroutine takes the next request
Return(g) ==
    /\ calls[g].pc = "done"
    /\ calls' = [calls EXCEPT ![g] = Idle]
    /\ UNCHANGED <<config, routes, req, resp, log, mPattern, mPath, mResult>>

ConcurrentNext ==
    \E g \in Goroutines :
        \/ Begin(g)
        \/ Resolve(g)
        \/ Authorize(g)
        \/ WriteHeader(g)
        \/ WriteBody(g)
        \/ Return(g)

SpecConcurrent == ConcurrentInit /\ [][ConcurrentNext]_vars

\* ------------------------------------------------------------ properties
\* A request is being answered by MockHandler.ServeHTTP
Handled == req # NoRequest /\ muxHandler(req.path) = "mock"

\* The routes whose method equals the request method and whose pattern
\* matches the request path
MatchSet ==
    {i \in 1..Len(routes) :
        routes[i].Method = req.method /\ pathMatches(routes[i].Path, req.path)}

Lowest(S) == CHOOSE i \in S : \A j \in S : i <= j

\* The request carries a non-empty value for the route's auth header
AuthValuePresent(route) ==
    \E k \in DOMAIN req.headers :
        /\ CanonicalMIMEHeaderKey(k) = CanonicalMIMEHeaderKey(route.AuthHeader)
        /\ req.headers[k] # ""

\* The responses the emission step can produce for a route, whatever the
\* request headers
NormalOutcomes(route) ==
    {emit(route, order, writeFails) :
        order \in KeyOrders(route.Response.Headers.m), writeFails \in BOOLEAN}

\* The route answers the request: it is the resolved route and the auth
\* check does not stop the request
Answers(i) ==
    /\ Handled
    /\ MatchSet # {}
    /\ i = Lowest(MatchSet)
    /\ (routes[i].RequiresAuth => AuthValuePresent(routes[i]))

\* C1: the route selected for a request is the one with the lowest index
\* among the routes whose method equals the request method and whose
\* pattern matches the request path; the log names it and the response is
\* its 401 or its configured response.
C1_FirstMatchWins ==
    (Handled /\ MatchSet # {}) =>
        LET i == Lowest(MatchSet) IN
        /\ findRoute(routes, req.method, req.path) = i
        /\ Len(log) >= 2 /\ log[2] = LogMatched(routes[i])
        /\ resp \in NormalOutcomes(routes[i]) \cup {Unauthorized}

\* C1 witness: an earlier parameterized route and a later literal route of
\* the same method both match; the answer is the earlier one's and could
\* not be the later one's.
C1_Witness ==
    /\ Handled
    /\ Len(routes) = 2
    /\ routes[1].Path = PathParam /\ routes[2].Path = PathA
    /\ routes[1].Method = "GET" /\ routes[2].Method = "GET"
    /\ req.method = "GET" /\ req.path = PathA
    /\ resp \in NormalOutcomes(routes[1])
    /\ resp \notin NormalOutcomes(routes[2]) \cup {Unauthorized}

\* The response the configuration promises for route i: its status, its
\* headers under their canonical names plus the forced Content-Type, and
\* the serialization of its body
ConfiguredResponse(i) ==
    LET c == config.routes[i].response IN
    /\ resp.status = c.status
    /\ "Content-Type" \in DOMAIN resp.headers
    /\ resp.headers["Content-Type"] = "application/json"
    /\ DOMAIN resp.headers =
          {CanonicalMIMEHeaderKey(k) : k \in DOMAIN c.headers.m}
          \cup {"Content-Type"}
    /\ \A h \in DOMAIN resp.headers \ {"Content-Type"} :
          \E k \in DOMAIN c.headers.m :
              CanonicalMIMEHeaderKey(k) = h /\ resp.headers[h] = c.headers.m[k]
    /\ \/ c.body \in {"omitted", "null"} /\ resp.body = ""
       \/ c.body = "false" /\ resp.body = "false\n"
       \/ c.body = "{\"id\":1}" /\ resp.body = "{\"id\":1}\n"
       \/ c.body \notin {"omitted", "null"} /\ resp.body = Truncated

\* Route i is static and the request names its method and its exact path
ExactStatic(i) ==
    /\ ~Contains(routes[i].Path, "{")
    /\ routes[i].Method = req.method
    /\ routes[i].Path = req.path

C4_NoMatchIs404 ==
    (Handled /\ MatchSet = {}) =>
        /\ resp = NotFound
        /\ resp.status = 404
        /\ log = <<LogRequest(req), LogNoMatch>>

\* C4 witness: the table holds a route that requires authorization, the
\* request carries a token and matches no route.
C4_Witness ==
    /\ Handled /\ MatchSet = {}
    /\ \E i \in 1..Len(routes) : routes[i].RequiresAuth
    /\ "X-Key" \in DOMAIN req.headers /\ req.headers["X-Key"] = "t1"
    /\ resp.status = 404

\* ------------------------------------------- properties of pathMatches
Matched == mResult # "none"

\* The segments of a pattern or a path: slashes trimmed, then split
Segments(s) == Split(Trim(s, "/"), "/")

\* A parameter segment: {name}
IsParam(seg) == HasPrefix(seg, "{") /\ HasSuffix(seg, "}")

HasParam(p) == \E i \in 1..Len(Segments(p)) : IsParam(Segments(p)[i])

SameCount == Len(Segments(mPattern)) = Len(Segments(mPath))

\* Every pattern segment that is not a parameter equals the path segment
\* at its position
LiteralsAgree ==
    \A i \in 1..Len(Segments(mPattern)) :
        IsParam(Segments(mPattern)[i])
        \/ (i <= Len(Segments(mPath))
            /\ Segments(mPattern)[i] = Segments(mPath)[i])

\* Every path segment at the position of a parameter is non-empty
ParamsFilled ==
    \A i \in 1..Len(Segments(mPattern)) :
        (IsParam(Segments(mPattern)[i]) /\ i <= Len(Segments(mPath)))
            => Segments(mPath)[i] # <<>>

\* C5: for a pattern with a parameter segment, pathMatches is false when
\* the segment counts differ or a literal segment differs, and true when
\* the counts are equal, the literal segments agree and the segments at
\* the parameter positions are non-empty, whatever they are.
C5_ParamPatternMatching ==
    (Matched /\ HasParam(mPattern)) =>
        /\ (~SameCount \/ ~LiteralsAgree) => mResult = "false"
        /\ (SameCount /\ LiteralsAgree /\ ParamsFilled) => mResult = "true"

\* C5 witness: a pattern of a literal and a parameter segment matches a
\* path of two non-empty segments that is not the pattern itself.
C5_Witness ==
    /\ Matched /\ HasParam(mPattern)
    /\ Len(Segments(mPattern)) = 2
    /\ ~IsParam(Segments(mPattern)[1]) /\ IsParam(Segments(mPattern)[2])
    /\ mPattern # mPath
    /\ SameCount /\ ParamsFilled
    /\ mResult = "true"

\* C5 second witness: the same kind of pattern rejects a path with one
\* segment more or less.
C5_WitnessCount ==
    /\ Matched /\ HasParam(mPattern)
    /\ ~SameCount
    /\ mResult = "false"

\* C6 as stated: when pathMatches is true by segment comparison, every
\* path segment at the position of a parameter is non-empty, and an empty
\* path matches only a pattern that is itself a single empty segment.
C6_ParamNeedsSegment ==
    (Matched /\ mResult = "true") =>
        /\ mPattern # mPath => ParamsFilled
        /\ Segments(mPath) = <<<<>>>> => Segments(mPattern) = <<<<>>>>

\* ------------------------------------------------ properties, continued
\* The route the handler resolves for the request
Resolved == findRoute(routes, req.method, req.path)

\* The same request with a slash appended to its path
ResolvedWithSlash == findRoute(routes, req.method, Append(req.path, "/"))

\* C7 as stated: a request path and the path with a trailing slash
\* appended resolve to the same route, or both to none.
C7_Original == Handled => Resolved = ResolvedWithSlash

\* Some static route of the request's method is exactly the path or the
\* path with the slash
StaticRouteOnPath ==
    \E i \in 1..Len(routes) :
        /\ routes[i].Method = req.method
        /\ ~Contains(routes[i].Path, "{")
        /\ routes[i].Path \in {req.path, Append(req.path, "/")}

\* C7 amended: a request path and the path with a trailing slash appended
\* resolve to the same route, provided no static route of that method has
\* exactly one of the two as its path.
C7_TrailingSlash ==
    (Handled /\ ~StaticRouteOnPath) => Resolved = ResolvedWithSlash

\* C7 witness: a request without trailing slash is resolved to a
\* parameterized route, and so is the request with the slash.
C7_Witness ==
    /\ Handled /\ ~StaticRouteOnPath
    /\ req.path = PathA
    /\ Resolved # 0
    /\ routes[Resolved].Path = PathParam
    /\ ResolvedWithSlash = Resolved
    /\ resp \in NormalOutcomes(routes[Resolved])

\* The headers the resolved route is configured with
ConfiguredHeaders == config.routes[Resolved].response.headers.m

\* Another configured header has the same canonical name
SharesName(k) ==
    \E k2 \in DOMAIN ConfiguredHeaders :
        k2 # k /\ CanonicalMIMEHeaderKey(k2) = CanonicalMIMEHeaderKey(k)

\* The value the response carries for a configured header
Emitted(k) ==
    IF CanonicalMIMEHeaderKey(k) \in DOMAIN resp.headers
    THEN resp.headers[CanonicalMIMEHeaderKey(k)] ELSE "<none>"

\* C8 as stated: a successful response has Content-Type application/json
\* and every other configured header with its configured value.
C8_Original ==
    (Handled /\ MatchSet # {} /\ Answers(Resolved)) =>
        /\ Emitted("Content-Type") = "application/json"
        /\ \A k \in DOMAIN ConfiguredHeaders :
              CanonicalMIMEHeaderKey(k) # "Content-Type"
                  => Emitted(k) = ConfiguredHeaders[k]

\* C8 amended: a successful response has Content-Type application/json,
\* whatever Content-Type the route configures, and every other configured
\* header whose name no other configured header shares up to letter case
\* with its configured value.
C8_ForcedContentType ==
    (Handled /\ MatchSet # {} /\ Answers(Resolved)) =>
        /\ Emitted("Content-Type") = "application/json"
        /\ \A k \in DOMAIN ConfiguredHeaders :
              (CanonicalMIMEHeaderKey(k) # "Content-Type" /\ ~SharesName(k))
                  => Emitted(k) = ConfiguredHeaders[k]

\* C8 witness: the answering route configures a Content-Type of its own
\* and another header.
C8_Witness ==
    /\ Handled /\ MatchSet # {} /\ Answers(Resolved)
    /\ "content-type" \in DOMAIN ConfiguredHeaders
    /\ ConfiguredHeaders["content-type"] = "text/plain"
    /\ Emitted("X-A") = "1"
    /\ Emitted("Content-Type") = "application/json"

\* C9: a request for /_health gets status 200 and the fixed payload,
\* whatever the route table holds, and leaves no trace of a route lookup.
C9_HealthReserved ==
    (req # NoRequest /\ req.path = PathHealth) =>
        /\ resp.status = 200
        /\ resp.body = "{\"status\":\"ok\",\"message\":\"mockery-api is running\"}"
        /\ resp.headers = ("Content-Type" :> "application/json")
        /\ log = <<>>

\* C9 witness: the table holds a route for /_health with the request's
\* method that requires authorization, and the request carries no header.
C9_Witness ==
    /\ req # NoRequest /\ req.path = PathHealth
    /\ req.headers = NoHeaders
    /\ \E i \in 1..Len(routes) :
          /\ routes[i].Path = PathHealth
          /\ routes[i].Method = req.method
          /\ routes[i].RequiresAuth
    /\ resp.status = 200

\* C9 second witness: the table is empty.
C9_WitnessEmpty ==
    /\ req # NoRequest /\ req.path = PathHealth
    /\ Len(routes) = 0
    /\ resp.status = 200

\* C10 as stated: a successful response carries the serialization of the
\* configured body when the configuration has a body field, null
\* included, and no payload when it has none.
C10_NullBodyWritten ==
    (Handled /\ MatchSet # {} /\ Answers(Resolved)) =>
        LET body == config.routes[Resolved].response.body IN
        /\ body = "omitted" => resp.body = ""
        /\ body = "null" => resp.body \in {"null\n", Truncated}
        /\ body = "false" => resp.body \in {"false\n", Truncated}
        /\ body = "{\"id\":1}" => resp.body \in {"{\"id\":1}\n", Truncated}

\* ------------------------------------- properties of concurrent calls
\* The table as main built it
InitialTable == LoadConfig(config)

\* The route ServeHTTP resolves for a request served alone on the initial
\* table
AloneRoute(r) == findRoute(InitialTable, r.method, r.path)

\* The responses ServeHTTP can give to a request served alone on the
\* initial table
AloneResponses(r, writeFails) ==
    LET m == IF AloneRoute(r) = 0 THEN EmptyMap
             ELSE InitialTable[AloneRoute(r)].Response.Headers.m
    IN  {serveResponse(InitialTable, r, order, writeFails) :
            order \in KeyOrders(m)}

\* The call of goroutine g has ended and has not been cleared yet
Ended(g) == calls[g].pc = "done"

\* The goroutine is past findRoute with a route
HasRoute(g) == calls[g].pc \in {"auth", "header", "body"}

\* Two configured header names of the route differ only in letter case
CaseVariantHeaders(i) ==
    \E k1, k2 \in DOMAIN InitialTable[i].Response.Headers.m :
        k1 # k2 /\ CanonicalMIMEHeaderKey(k1) = CanonicalMIMEHeaderKey(k2)

\* The table is the initial table, every call works on the route that
\* its own request resolves to, and every ended call has a response and
\* a log that the same request served alone can have
NoSharedState ==
    /\ routes = InitialTable
    /\ \A g \in Goroutines :
          HasRoute(g) => calls[g].route = AloneRoute(calls[g].req)
    /\ \A g \in Goroutines :
          Ended(g) =>
              /\ calls[g].resp \in
                    AloneResponses(calls[g].req, calls[g].writeFails)
              /\ calls[g].log =
                    serveLog(InitialTable, calls[g].req, calls[g].writeFails)

\* Two ended calls had the same request and the same fate of the write
SameCall(g1, g2) ==
    /\ Ended(g1) /\ Ended(g2)
    /\ calls[g1].req = calls[g2].req
    /\ calls[g1].writeFails = calls[g2].writeFails

C11_WitnessSame ==
    /\ SameCall("g1", "g2")
    /\ calls["g1"].route # 0
    /\ calls["g1"].resp.status = 201
    /\ calls["g1"].resp = calls["g2"].resp

\* ------------------------------------------------ properties, continued
\* No pattern of the table has a parameter marker
AllStatic == \A i \in 1..Len(routes) : ~Contains(routes[i].Path, "{")

\* The route of the earlier handler version for the request
ResolvedExact == findRouteExact(routes, req.method, req.path)

\* C12: a pattern without '{' matches a path exactly when the two are
\* equal strings, and on a table without '{' the handler resolves, logs
\* and answers with the route that the exact-match findRoute of the
\* earlier version selects.
C12_StaticIsExact ==
    Handled =>
        /\ \A i \in 1..Len(routes) :
              ~Contains(routes[i].Path, "{") =>
                  (pathMatches(routes[i].Path, req.path)
                      <=> routes[i].Path = req.path)
        /\ AllStatic =>
              /\ Resolved = ResolvedExact
              /\ Len(log) >= 2
              /\ log[2] = IF ResolvedExact = 0 THEN LogNoMatch
                          ELSE LogMatched(routes[ResolvedExact])
              /\ ResolvedExact = 0 => resp = NotFound
              /\ ResolvedExact # 0 =>
                    resp \in NormalOutcomes(routes[ResolvedExact])
                             \cup {Unauthorized}

\* C12 witness: a static route /a of the request's method and a request
\* for /a/, which no trimming makes equal: the answer is the 404.
C12_Witness ==
    /\ Handled /\ AllStatic
    /\ Len(routes) = 2
    /\ \E i \in 1..Len(routes) :
          routes[i].Path = PathA /\ routes[i].Method = req.method
    /\ req.path = PathASlash
    /\ ResolvedExact = 0
    /\ resp = NotFound

\* The first matching route requires authorization and the request has no
\* non-empty value for its auth header
AuthMissing ==
    /\ Handled
    /\ MatchSet # {}
    /\ routes[Lowest(MatchSet)].RequiresAuth
    /\ ~AuthValuePresent(routes[Lowest(MatchSet)])

\* C13: when the first matching route requires authorization and the
\* header is absent or empty, the response is the fixed 401 of http.Error
\* and the log ends with the auth failure of that route, whatever later
\* routes match; nothing configured for a route is in the response.
C13_AuthFailureTerminal ==
    AuthMissing =>
        /\ resp.status = 401
        /\ resp.body = "Unauthorized: missing auth header\n"
        /\ resp.headers = ("Content-Type" :> "text/plain; charset=utf-8"
                           @@ "X-Content-Type-Options" :> "nosniff")
        /\ log = <<LogRequest(req),
                   LogMatched(routes[Lowest(MatchSet)]),
                   LogAuthFailed(routes[Lowest(MatchSet)])>>

\* C13 witness: the second route matches the same request without
\* requiring authorization, and the answer is still the 401.
C13_Witness ==
    /\ AuthMissing
    /\ Len(routes) = 2
    /\ MatchSet = {1, 2}
    /\ ~routes[2].RequiresAuth
    /\ routes[2].Response.Status = 201
    /\ "X-Key" \in DOMAIN req.headers /\ req.headers["X-Key"] = ""
    /\ resp.status = 401

\* The positions of the log lines of the given kinds
LinesOf(kinds) == {i \in 1..Len(log) : log[i].kind \in kinds}

\* C14 as stated: on every path through ServeHTTP on which the encoding
\* does not fail, the log holds, once each and in this order, the request
\* line, the line of the match result, the auth line when the resolved
\* route requires authorization, and last the line of the status sent.
C14_LogComplete ==
    (Handled /\ LinesOf({"encode-error"}) = {}) =>
        /\ LinesOf({"request"}) = {1}
        /\ log[1] = LogRequest(req)
        /\ LinesOf({"matched", "no-match"}) = {2}
        /\ log[2] = IF MatchSet = {} THEN LogNoMatch
                    ELSE LogMatched(routes[Lowest(MatchSet)])
        /\ LinesOf({"auth-failed", "auth-present"}) =
              IF MatchSet # {} /\ routes[Lowest(MatchSet)].RequiresAuth
              THEN {3} ELSE {}
        /\ LinesOf({"sent"}) = {Len(log)}
        /\ log[Len(log)].status = resp.status

\* ------------------------------- properties of concurrent calls, continued
\* The call of goroutine g has ended after its encoding failed
EncodeFailed(g) == Ended(g) /\ calls[g].writeFails

\* The kinds of the log lines of the call of goroutine g
KindsOf(g) == [i \in 1..Len(calls[g].log) |-> calls[g].log[i].kind]

\* After a failed encoding the response has the configured status and the
\* forced Content-Type, no payload beyond what the failed write left, and
\* the log ends with the one line of the failure and has no sent line
FailureOutcome(g) ==
    LET c == config.routes[AloneRoute(calls[g].req)].response IN
    /\ calls[g].resp.status = c.status
    /\ "Content-Type" \in DOMAIN calls[g].resp.headers
    /\ calls[g].resp.headers["Content-Type"] = "application/json"
    /\ calls[g].resp.body = Truncated
    /\ Len(calls[g].log) >= 3
    /\ calls[g].log[Len(calls[g].log)] = LogEncodeError
    /\ \A i \in 1..(Len(calls[g].log) - 1) :
          KindsOf(g)[i] \notin {"encode-error", "sent"}

\* The body step leaves the status and the headers as WriteHeader wrote
\* them
HeaderStands(g) ==
    calls[g].pc = "body" =>
        /\ calls'[g].resp.status = calls[g].resp.status
        /\ calls'[g].resp.headers = calls[g].resp.headers

\* C15: when the encoding of the body fails, the status and the headers
\* already written stand, no other body is written, the failure is
\* logged once and no sent line is logged.
C15_EncodeFailureStands ==
    /\ [](\A g \in Goroutines : EncodeFailed(g) => FailureOutcome(g))
    /\ [][\A g \in Goroutines : HeaderStands(g)]_vars

\* C15 witness: a call whose route configures status 201, headers and a
\* body has ended after its encoding failed.
C15_Witness ==
    /\ EncodeFailed("g1")
    /\ calls["g1"].resp.status = 201
    /\ "X-A" \in DOMAIN calls["g1"].resp.headers
    /\ calls["g1"].resp.body = Truncated

====
